---- MODULE Spec2Model ----
(***************************************************************************)
(* Superlists: per-list unique text items (lists/models.py) and            *)
(* passwordless login by e-mailed token (accounts/views.py).               *)
(*                                                                         *)
(* Storage is the shared state.  Every request is a process that runs the  *)
(* statements of its view one storage statement at a time; statements of   *)
(* different requests interleave freely (each ORM statement commits on its *)
(* own, no view opens a transaction).                                      *)
(* auth.authenticate, whose code is outside the source at hand, runs the   *)
(* statements the specification lists for it: the Token lookup, the User   *)
(* lookup and, when no User was found, the User INSERT; auth.login and the *)
(* redirect that follow it in the view are a step of their own.            *)
(***************************************************************************)
EXTENDS Naturals, Sequences, FiniteSets, Bags

VARIABLES lists,   \* table List: sequence of rows, id = position
          items,   \* table Item: sequence of rows, id = position (ordering = ('id',))
          req,     \* lists app: one record per request slot
          tokens,  \* table Token: set of rows [uid, email]
          users,   \* table User: sequence of e-mails, id = position
          mails,   \* bag of the messages handed to the Mailer (send_mail)
          areq     \* accounts app: one record per request slot

vars == <<lists, items, req, tokens, users, mails, areq>>
listVars == <<lists, items, req>>
accountVars == <<tokens, users, mails, areq>>

(* ------------------------------ bounds -------------------------------- *)
NumReqs == 2        \* request slots of the lists app running at once
MaxLists == 2       \* rows of table List
MaxItems == 2       \* rows of table Item
NumLoginReqs == 2   \* request slots of the accounts app running at once
MaxTokens == 2      \* rows of table Token

Reqs == 1..NumReqs
AReqs == 1..NumLoginReqs

\* item texts a POST may carry: the empty one, and two that differ by case only
Texts == {"", "a", "A"}

\* the null of a nullable reference (ids start at 1)
None == 0
\* owner handed to List.create_new by the new-list view: the requests modelled
\* here are anonymous (create_new's default, owner=None)
Owners == {None}

(* ------------------------- lists/models.py ----------------------------- *)

\* Item.text = models.TextField(default=''): blank is left at its default,
\* False, so a form built on the model requires the field.
ItemTextBlankTrue == TRUE
ItemTextBlank == FALSE

\* Item.Meta.unique_together = ('list', 'text'): the storage constraint an
\* INSERT of (l, t) must pass.  Texts are compared exactly.
UniqueNothing(its, l, t) == TRUE
UniqueTextOnly(its, l, t) ==
    \A k \in 1..Len(its) : its[k].text # t
UniqueTogether(its, l, t) ==
    \A k \in 1..Len(its) : ~(its[k].list = l /\ its[k].text = t)

\* Item.objects.create(text=t, list=l): the row appended when the constraint
\* passes; the table as it was when the INSERT raises IntegrityError.
ItemCreateUnchecked(its, l, t) == Append(its, [list |-> l, text |-> t])
ItemCreate(its, l, t) ==
    IF UniqueTogether(its, l, t)
    THEN Append(its, [list |-> l, text |-> t])
    ELSE its

\* List.objects.create(owner=o)
ListCreate(ls, o) == Append(ls, [owner |-> o])

\* list_.item_set.all(): ids of the items of list l, in id order
ItemIdsOf(its, l) == {k \in 1..Len(its) : its[k].list = l}
ListTexts(its, l) == {its[k].text : k \in ItemIdsOf(its, l)}

(* --------------------- lists/forms.py, lists/views.py ------------------ *)

\* ItemForm.is_valid(): the text field is required unless the model allows blank
IsValidText(t) == ItemTextBlank \/ t # ""

Idle == [kind |-> "none", pc |-> "idle", list |-> None, text |-> "",
         owner |-> None, outcome |-> "none", item |-> None, fresh |-> FALSE]

\* POST /lists/new: validate, then NewListForm.save -> List.create_new
NewListPost(r, t, o) ==
    /\ req[r].pc = "idle"
    /\ req' = [req EXCEPT ![r] =
                 IF IsValidText(t)
                 THEN [Idle EXCEPT !.kind = "new_list", !.pc = "create_list",
                                   !.text = t, !.owner = o]
                 ELSE [Idle EXCEPT !.kind = "new_list", !.pc = "done",
                                   !.text = t, !.owner = o,
                                   !.outcome = "EmptyItemError"]]
    /\ UNCHANGED <<lists, items, accountVars>>

\* List.create_new, first statement: list_ = List.objects.create(owner=owner)
CreateNewList(r) ==
    /\ req[r].pc = "create_list"
    /\ Len(lists) < MaxLists
    /\ lists' = ListCreate(lists, req[r].owner)
    /\ req' = [req EXCEPT ![r].pc = "create_item", ![r].list = Len(lists) + 1]
    /\ UNCHANGED <<items, accountVars>>

\* List.create_new, second statement: Item.objects.create(text=..., list=list_)
CreateNewItem(r) ==
    /\ req[r].pc = "create_item"
    /\ Len(items) < MaxItems \/ ~UniqueTogether(items, req[r].list, req[r].text)
    /\ items' = ItemCreate(items, req[r].list, req[r].text)
    /\ req' = [req EXCEPT ![r] =
                 IF UniqueTogether(items, req[r].list, req[r].text)
                 THEN [@ EXCEPT !.pc = "done", !.outcome = "ok",
                                !.item = Len(items) + 1]
                 ELSE [@ EXCEPT !.pc = "fatal", !.outcome = "IntegrityError"]]
    /\ UNCHANGED <<lists, accountVars>>

\* POST /lists/<l>/: validate the text for the existing list l.
\* fresh records whether the text was absent from the list at that moment.
ViewListPost(r, l, t) ==
    /\ req[r].pc = "idle"
    /\ l \in 1..Len(lists)
    /\ req' = [req EXCEPT ![r] =
                 IF IsValidText(t)
                 THEN [Idle EXCEPT !.kind = "add_item", !.pc = "insert_item",
                                   !.list = l, !.text = t,
                                   !.fresh = (t \notin ListTexts(items, l))]
                 ELSE [Idle EXCEPT !.kind = "add_item", !.pc = "done",
                                   !.list = l, !.text = t,
                                   !.outcome = "EmptyItemError"]]
    /\ UNCHANGED <<lists, items, accountVars>>

\* the INSERT of the existing-list path; a constraint violation is caught and
\* reported as the duplicate outcome
AddItemInsert(r) ==
    /\ req[r].pc = "insert_item"
    /\ Len(items) < MaxItems \/ ~UniqueTogether(items, req[r].list, req[r].text)
    /\ items' = ItemCreate(items, req[r].list, req[r].text)
    /\ req' = [req EXCEPT ![r] =
                 IF UniqueTogether(items, req[r].list, req[r].text)
                 THEN [@ EXCEPT !.pc = "done", !.outcome = "ok",
                                !.item = Len(items) + 1]
                 ELSE [@ EXCEPT !.pc = "done", !.outcome = "DuplicateItemError"]]
    /\ UNCHANGED <<lists, accountVars>>

\* the response leaves; the slot is free for the next request
Respond(r) ==
    /\ req[r].pc \in {"done", "fatal"}
    /\ req' = [req EXCEPT ![r] = Idle]
    /\ UNCHANGED <<lists, items, accountVars>>

InitLists ==
    /\ lists = <<>>
    /\ items = <<>>
    /\ req = [r \in Reqs |-> Idle]

(* ------------------------- accounts/views.py --------------------------- *)

\* e-mail values a POST may carry; nothing checks their format
Emails == {"a@b.com", "not-an-email"}
\* the space the uid of a new Token is drawn from
Uids == {"u1", "u2", "u3"}
\* Python's None where a string is expected
Absent == "<None>"
\* query strings of GET /login: no parameter at all, or token=<value>
Queries == {{}} \cup {{<<"token", v>>} : v \in Uids \cup {""}}

\* request.GET.get(key): the value of the parameter, None when it is missing
QueryGet(q, key) ==
    IF \E p \in q : p[1] = key
    THEN (CHOOSE p \in q : p[1] = key)[2]
    ELSE Absent

\* login: uid=request.GET.get('token')
LoginUid(q) == QueryGet(q, "token")

\* login: "if user:" guards auth.login(request, user)
ShouldLoginAlways(user) == TRUE
ShouldLogin(user) == user # None

\* reverse('login') + '?token=' + str(token.uid), made absolute
LoginUrlNoToken(uid) == <<"http://site", "/login", "?token=", "">>
LoginUrl(uid) == <<"http://site", "/login", "?token=", uid>>

\* f'Use this link to log in:\n\n{url}'
MessageBody(url) == <<"Use this link to log in:\n\n", url>>

\* the arguments of send_mail(subject, body, from, [email])
LoginMail(email, uid) ==
    [subject |-> "Your login link for Superlists",
     body |-> MessageBody(LoginUrl(uid)),
     from |-> "noreply@superlists",
     to |-> <<email>>]

\* return redirect('/')
Redirect(path) == <<302, path>>

(* --------------- accounts/models.py, accounts/authentication.py -------- *)

\* Token.objects.create(email=e) with a uid no stored Token holds
TokenCreate(toks, uid, e) == toks \cup {[uid |-> uid, email |-> e]}

\* Token Store find_by_uid: exact lookup
FindByUid(toks, uid) == {t \in toks : t.uid = uid}

\* authenticate, step 2: the email of the Token found for uid; "" stands for
\* "no Token" (uid absent, empty or unknown)
TokenFound(toks, uid) ==
    uid # Absent /\ uid # "" /\ FindByUid(toks, uid) # {}
TokenEmail(toks, uid) ==
    IF TokenFound(toks, uid)
    THEN (CHOOSE t \in FindByUid(toks, uid) : TRUE).email
    ELSE ""

\* ids of the Users whose email is e
UserIdsOf(us, e) == {k \in 1..Len(us) : us[k] = e}

\* authenticate, step 3, the lookup: the id of the User whose email is e,
\* None when there is none
UserLookup(us, e) ==
    IF UserIdsOf(us, e) = {}
    THEN None
    ELSE CHOOSE k \in UserIdsOf(us, e) : \A j \in UserIdsOf(us, e) : k <= j

\* User.email is the unique identifier of a User: the storage constraint an
\* INSERT of a User with email e must pass
UserEmailUnique(us, e) == UserIdsOf(us, e) = {}

\* authenticate, step 3, the creation: INSERT of a User with email e, refused
\* (table unchanged) when the email is taken
UserCreate(us, e) == IF UserEmailUnique(us, e) THEN Append(us, e) ELSE us

AIdle == [kind |-> "none", pc |-> "idle", email |-> "", token |-> Absent,
          user |-> None, session |-> <<>>,
          confirmed |-> FALSE, response |-> <<>>]

\* send_login_email up to token = Token.objects.create(email=email)
CreateToken(r, e) ==
    /\ areq[r].pc = "idle"
    /\ Cardinality(tokens) < MaxTokens
    /\ \E uid \in Uids \ {t.uid : t \in tokens} :
          /\ tokens' = TokenCreate(tokens, uid, e)
          /\ areq' = [areq EXCEPT ![r] =
                        [AIdle EXCEPT !.kind = "send_login_email", !.pc = "send_mail",
                                      !.email = e, !.token = uid]]
    /\ UNCHANGED <<users, mails, listVars>>

\* send_login_email: send_mail(...) returns
SendMail(r) ==
    /\ areq[r].pc = "send_mail"
    /\ mails' = mails (+) SetToBag({LoginMail(areq[r].email, areq[r].token)})
    /\ areq' = [areq EXCEPT ![r].pc = "confirm"]
    /\ UNCHANGED <<tokens, users, listVars>>

\* send_login_email: send_mail(...) raises; nothing catches it
MailerFails(r) ==
    /\ areq[r].pc = "send_mail"
    /\ areq' = [areq EXCEPT ![r].pc = "fatal"]
    /\ UNCHANGED <<tokens, users, mails, listVars>>

\* send_login_email: messages.success(...); return redirect('/')
Confirm(r) ==
    /\ areq[r].pc = "confirm"
    /\ areq' = [areq EXCEPT ![r].pc = "done", ![r].confirmed = TRUE,
                            ![r].response = Redirect("/")]
    /\ UNCHANGED <<tokens, users, mails, listVars>>

\* login, views.py:28, entering auth.authenticate(request=request, uid=...):
\* authenticate steps 1-2, the uid checked and the Token looked up.  Without
\* a Token authenticate returns None; with one, token and email hold it.
Login(r, q) ==
    /\ areq[r].pc = "idle"
    /\ LET uid == LoginUid(q)
       IN areq' = [areq EXCEPT ![r] =
                     IF TokenFound(tokens, uid)
                     THEN [AIdle EXCEPT !.kind = "login", !.pc = "auth_user",
                                        !.token = uid,
                                        !.email = TokenEmail(tokens, uid)]
                     ELSE [AIdle EXCEPT !.kind = "login", !.pc = "login"]]
    /\ UNCHANGED <<tokens, users, mails, listVars>>

\* authenticate, step 3, the User looked up by the token's email: returned
\* when found, else the creation follows
AuthUserLookup(r) ==
    /\ areq[r].pc = "auth_user"
    /\ areq' = [areq EXCEPT ![r] =
                  IF UserLookup(users, areq[r].email) # None
                  THEN [areq[r] EXCEPT !.pc = "login",
                                       !.user = UserLookup(users, areq[r].email)]
                  ELSE [areq[r] EXCEPT !.pc = "auth_create"]]
    /\ UNCHANGED <<tokens, users, mails, listVars>>

\* authenticate, step 3, the User created with the token's email and returned;
\* an INSERT the storage refuses is a storage error, which leaves the view
AuthUserCreate(r) ==
    /\ areq[r].pc = "auth_create"
    /\ users' = UserCreate(users, areq[r].email)
    /\ areq' = [areq EXCEPT ![r] =
                  IF UserEmailUnique(users, areq[r].email)
                  THEN [areq[r] EXCEPT !.pc = "login", !.user = Len(users) + 1]
                  ELSE [areq[r] EXCEPT !.pc = "fatal"]]
    /\ UNCHANGED <<tokens, mails, listVars>>

\* login, views.py:29-31: auth.login when a user came back, redirect('/');
\* session is <<user>> once auth.login(request, user) has run, <<>> before
LoginSession(r) ==
    /\ areq[r].pc = "login"
    /\ areq' = [areq EXCEPT ![r].pc = "done",
                            ![r].session = IF ShouldLogin(areq[r].user)
                                           THEN <<areq[r].user>> ELSE <<>>,
                            ![r].response = Redirect("/")]
    /\ UNCHANGED <<tokens, users, mails, listVars>>

\* the response (or the failure) leaves; the slot is free for the next request
ARespond(r) ==
    /\ areq[r].pc \in {"done", "fatal"}
    /\ areq' = [areq EXCEPT ![r] = AIdle]
    /\ UNCHANGED <<tokens, users, mails, listVars>>

InitAccounts ==
    /\ tokens = {}
    /\ users = <<>>
    /\ mails = EmptyBag
    /\ areq = [r \in AReqs |-> AIdle]

Init == InitLists /\ InitAccounts

NextLists ==
    \/ \E r \in Reqs, t \in Texts, o \in Owners : NewListPost(r, t, o)
    \/ \E r \in Reqs : CreateNewList(r)
    \/ \E r \in Reqs : CreateNewItem(r)
    \/ \E r \in Reqs, l \in 1..MaxLists, t \in Texts : ViewListPost(r, l, t)
    \/ \E r \in Reqs : AddItemInsert(r)
    \/ \E r \in Reqs : Respond(r)

SpecLists == Init /\ [][NextLists]_vars

NextAccounts ==
    \/ \E r \in AReqs, e \in Emails : CreateToken(r, e)
    \/ \E r \in AReqs : SendMail(r)
    \/ \E r \in AReqs : MailerFails(r)
    \/ \E r \in AReqs : Confirm(r)
    \/ \E r \in AReqs, q \in Queries : Login(r, q)
    \/ \E r \in AReqs : AuthUserLookup(r)
    \/ \E r \in AReqs : AuthUserCreate(r)
    \/ \E r \in AReqs : LoginSession(r)
    \/ \E r \in AReqs : ARespond(r)

SpecAccounts == Init /\ [][NextAccounts]_vars

(* ======================= claims about the lists app ==================== *)

\* a request slot took a step
Stepped(r) == req'[r] # req[r]
\* number of rows of list l holding text t
CountOf(its, l, t) == Cardinality({k \in ItemIdsOf(its, l) : its[k].text = t})

\* C1: in every reachable state no two Items of the same List hold equal
\* text; texts are compared exactly, so "a" and "A" may share a list.
C1_UniqueTextPerList ==
    \A j, k \in 1..Len(items) :
        (j # k /\ items[j].list = items[k].list) => items[j].text # items[k].text
\* a list that holds two items, whose texts differ by case only
C1_Witness ==
    \E j, k \in 1..Len(items) :
        /\ j # k /\ items[j].list = items[k].list
        /\ items[j].text = "a" /\ items[k].text = "A"

\* C2: two add-item requests for the same list and the same non-empty text
\* in flight together, both started while the text was not in the list:
\* the one whose INSERT comes first succeeds and persists one Item, the other
\* then ends with DuplicateItemError and persists nothing; never both succeed.
Racing(r1, r2) ==
    /\ r1 # r2
    /\ req[r1].kind = "add_item" /\ req[r2].kind = "add_item"
    /\ req[r1].fresh /\ req[r2].fresh
    /\ req[r1].list = req[r2].list /\ req[r1].text = req[r2].text
C2_RaceStep ==
    \A r1, r2 \in Reqs :
        ( /\ Racing(r1, r2)
          /\ req[r1].pc = "insert_item" /\ Stepped(r1) )
        => /\ ( /\ req[r2].pc = "insert_item"
                /\ req[r1].text \notin ListTexts(items, req[r1].list) )
              => /\ req'[r1].pc = "done" /\ req'[r1].outcome = "ok"
                 /\ items' = Append(items, [list |-> req[r1].list, text |-> req[r1].text])
                 /\ req'[r1].item = Len(items')
           /\ (req[r2].pc = "done" /\ req[r2].outcome = "ok")
              => /\ req'[r1].pc = "done" /\ req'[r1].outcome = "DuplicateItemError"
                 /\ req'[r1].item = None
                 /\ items' = items
                 /\ CountOf(items', req[r1].list, req[r1].text) = 1
C2_NotBoth ==
    \A r1, r2 \in Reqs :
        (Racing(r1, r2) /\ req[r1].pc = "done" /\ req[r2].pc = "done")
        => ~(req[r1].outcome = "ok" /\ req[r2].outcome = "ok")
C2_ExactlyOneWins == []C2_NotBoth /\ [][C2_RaceStep]_vars
\* both requests saw the text absent, one stored it, the other was refused
C2_Witness ==
    \E r1, r2 \in Reqs :
        /\ r1 # r2
        /\ req[r1].kind = "add_item" /\ req[r2].kind = "add_item"
        /\ req[r1].fresh /\ req[r2].fresh
        /\ req[r1].list = req[r2].list /\ req[r1].text = req[r2].text
        /\ req[r1].pc = "done" /\ req[r1].outcome = "ok"
        /\ req[r2].pc = "done" /\ req[r2].outcome = "DuplicateItemError"

\* C3: add_item(list, text) for a non-empty text the list already holds ends
\* with DuplicateItemError, not a storage fault, and leaves both tables as
\* they were.
C3_DuplicateStep ==
    \A r \in Reqs :
        ( /\ req[r].kind = "add_item" /\ req[r].pc = "insert_item"
          /\ req[r].text \in ListTexts(items, req[r].list)
          /\ Stepped(r) )
        => /\ req'[r].pc = "done"
           /\ req'[r].outcome = "DuplicateItemError"
           /\ req'[r].item = None
           /\ items' = items /\ lists' = lists
C3_DuplicateRejected == [][C3_DuplicateStep]_vars
\* a request was refused as a duplicate and the list still holds the text once
C3_Witness ==
    \E r \in Reqs :
        /\ req[r].kind = "add_item" /\ req[r].pc = "done"
        /\ req[r].outcome = "DuplicateItemError"
        /\ CountOf(items, req[r].list, req[r].text) = 1

\* C4: in every reachable state every stored List has at least one Item.
C4_ListHasItem ==
    \A l \in 1..Len(lists) : ItemIdsOf(items, l) # {}

\* C5: on the new-list path and on the existing-list path, whatever the
\* tables hold, a request with the empty text ends with EmptyItemError at
\* once and writes no row; no stored Item has the empty text.
C5_EmptyStep ==
    \A r \in Reqs :
        (req[r].pc = "idle" /\ Stepped(r) /\ req'[r].text = "")
        => /\ req'[r].pc = "done"
           /\ req'[r].outcome = "EmptyItemError"
           /\ items' = items /\ lists' = lists
C5_NoEmptyRow ==
    /\ \A k \in 1..Len(items) : items[k].text # ""
    /\ \A r \in Reqs : req[r].pc \notin {"idle", "done"} => req[r].text # ""
C5_EmptyRejected == []C5_NoEmptyRow /\ [][C5_EmptyStep]_vars
\* both paths have refused an empty text, the existing list holding items
C5_Witness ==
    \E r1, r2 \in Reqs :
        /\ req[r1].kind = "new_list" /\ req[r1].outcome = "EmptyItemError"
        /\ req[r2].kind = "add_item" /\ req[r2].outcome = "EmptyItemError"
        /\ ItemIdsOf(items, req[r2].list) # {}

\* C9: uniqueness is per list: an add-item whose text is not in its own list
\* succeeds whatever the other lists hold, and an add-item, stored or
\* refused, leaves the Items of every other List as they were.
C9_ScopedStep ==
    \A r \in Reqs :
        (req[r].kind = "add_item" /\ req[r].pc = "insert_item" /\ Stepped(r))
        => /\ req[r].text \notin ListTexts(items, req[r].list)
                => /\ req'[r].outcome = "ok"
                   /\ items' = Append(items, [list |-> req[r].list, text |-> req[r].text])
           /\ \A l \in 1..Len(lists) :
                l # req[r].list =>
                    /\ ItemIdsOf(items', l) = ItemIdsOf(items, l)
                    /\ \A k \in ItemIdsOf(items, l) : items'[k] = items[k]
C9_UniquenessPerList == [][C9_ScopedStep]_vars
\* an add-item stored a text that another list holds too
C9_Witness ==
    \E r \in Reqs :
        /\ req[r].kind = "add_item" /\ req[r].outcome = "ok"
        /\ \E k \in 1..Len(items) :
              items[k].text = req[r].text /\ items[k].list # req[r].list

(* ===================== claims about the accounts app =================== *)

AStepped(r) == areq'[r] # areq[r]
\* slot r runs the login view in this step, the request carrying q
LoginStep(r) == areq[r].pc = "idle" /\ areq'[r].kind = "login"
StoredUids == {t.uid : t \in tokens}

\* a login whose uid was that of a stored Token when authenticate looked it up
ValidLogin(r) == areq[r].kind = "login" /\ areq[r].token # Absent

C8_BadUidStep ==
    \A r \in AReqs :
        /\ \A q \in Queries :
              (LoginStep(r) /\ Login(r, q) /\ QueryGet(q, "token") \notin StoredUids)
              => /\ areq'[r].pc = "login"
                 /\ areq'[r].token = Absent
                 /\ areq'[r].user = None
                 /\ users' = users
        /\ (areq[r].pc = "login" /\ AStepped(r))
           => /\ areq'[r].pc = "done"
              /\ areq'[r].user = areq[r].user
              /\ areq'[r].response = Redirect("/")
              /\ users' = users
C8_SessionIffUser ==
    \A r \in AReqs :
        areq[r].kind = "login"
        => /\ areq[r].token = Absent
                 => (areq[r].pc \in {"login", "done"} /\ areq[r].user = None)
           /\ areq[r].pc # "done"
                 => (areq[r].session = <<>> /\ areq[r].response = <<>>)
           /\ areq[r].pc = "done"
                 => /\ areq[r].response = Redirect("/")
                    /\ areq[r].user = None => areq[r].session = <<>>
                    /\ areq[r].user # None => areq[r].session = <<areq[r].user>>
C8_BadTokenNoSession == []C8_SessionIffUser /\ [][C8_BadUidStep]_vars
\* a login for which authenticate found no Token ended without a session,
\* next to a login that established one, both answered alike
C8_Witness ==
    \E r1, r2 \in AReqs :
        /\ areq[r1].kind = "login" /\ areq[r2].kind = "login"
        /\ areq[r1].pc = "done" /\ areq[r2].pc = "done"
        /\ areq[r1].token = Absent /\ areq[r1].user = None
        /\ areq[r1].session = <<>>
        /\ areq[r2].session # <<>>
        /\ areq[r1].response = areq[r2].response

\* C10: request_login, for any email string, issues exactly one new Token
\* for it, then hands the Mailer exactly one message addressed to that
\* email whose body holds the login URL with that token's uid; the
\* confirmation comes only after the Mailer returned, and a Mailer failure
\* ends the request as fatal, unconfirmed, with no retry.
MailsOf(r) ==
    {m \in BagToSet(mails) :
        /\ m.to = <<areq[r].email>>
        /\ m.body[2][2] = "/login"
        /\ m.body[2][3] = "?token="
        /\ m.body[2][4] = areq[r].token}
OneMailOf(r) ==
    Cardinality(MailsOf(r)) = 1 /\ \A m \in MailsOf(r) : CopiesIn(m, mails) = 1
C10_Order ==
    \A r \in AReqs :
        areq[r].kind = "send_login_email"
        => /\ FindByUid(tokens, areq[r].token) =
                 {[uid |-> areq[r].token, email |-> areq[r].email]}
           /\ areq[r].pc \in {"send_mail", "fatal"} =>
                 (MailsOf(r) = {} /\ ~areq[r].confirmed)
           /\ areq[r].pc \in {"confirm", "done"} =>
                 OneMailOf(r)
           /\ areq[r].confirmed <=> areq[r].pc = "done"
           /\ \A m \in BagToSet(mails) :
                 m.body[2][4] = areq[r].token => m \in MailsOf(r)
C10_Step ==
    \A r \in AReqs :
        /\ (areq[r].pc = "idle" /\ areq'[r].kind = "send_login_email")
           => /\ areq'[r].token \notin StoredUids
              /\ tokens' = tokens \cup
                    {[uid |-> areq'[r].token, email |-> areq'[r].email]}
              /\ mails' = mails
        /\ (areq[r].pc = "send_mail" /\ AStepped(r))
           => /\ tokens' = tokens
              /\ \/ areq'[r].pc = "confirm" /\ BagCardinality(mails') = BagCardinality(mails) + 1
                 \/ areq'[r].pc = "fatal" /\ mails' = mails
        /\ (areq[r].pc = "fatal" /\ AStepped(r))
           => (areq'[r].pc = "idle" /\ mails' = mails /\ tokens' = tokens)
C10_RequestLogin == []C10_Order /\ [][C10_Step]_vars
\* a request for an address that is no e-mail address was confirmed, its
\* Token stored and its one message handed over, and another request ended on
\* a Mailer failure
C10_Witness ==
    \E r1, r2 \in AReqs :
        /\ areq[r1].kind = "send_login_email" /\ areq[r1].email = "not-an-email"
        /\ areq[r1].pc = "done" /\ areq[r1].confirmed /\ OneMailOf(r1)
        /\ [uid |-> areq[r1].token, email |-> "not-an-email"] \in tokens
        /\ areq[r2].kind = "send_login_email" /\ areq[r2].pc = "fatal"

====
